---------------------------- MODULE Spec2Model ----------------------------
(***************************************************************************)
(* A model of construction.py (class Component): a tree of components with *)
(* weights, volumes, submersion classes and positions relative to the      *)
(* parent, and the aggregations over it (centre of gravity, displaced      *)
(* volume, submersion rate, centre of buoyancy, tree dump).                *)
(*                                                                         *)
(* Numbers.  The program computes with Python numbers and numpy arrays.    *)
(* Weights, volumes and positions are small integers here; a quotient is   *)
(* an exact fraction <<n, d>> in lowest terms with d > 0.  Rounding of     *)
(* binary floating point is not modelled.  The two divisions of the        *)
(* program differ on a zero divisor, and both are modelled: a Python       *)
(* scalar division raises ZeroDivisionError; a numpy array division gives  *)
(* nan, inf or -inf per component (<<0,0>>, <<1,0>>, <<-1,0>>), issues a   *)
(* RuntimeWarning and goes on.                                             *)
(***************************************************************************)
EXTENDS Integers, Sequences, FiniteSets, TLC

VARIABLES
    heap,      \* the Component objects, in order of construction
    nassign,   \* number of assign_child calls the driver made directly
    ret,       \* the last aggregation call: what it returned, raised, printed
    tree0,     \* the completed tree the interleaved calculations started on
    threads    \* the calculations that run interleaved over one tree

vars == <<heap, nassign, ret, tree0, threads>>

(***************************************************************************)
(* Bounds and input sets                                                   *)
(***************************************************************************)
MaxNodes == 3
MaxAssign == 1

\* Component(...) without submerged= is -1; 0 is partially, 1 fully submerged
NOT_SUBMERGED == -1
PARTIALLY_SUBMERGED == 0
FULLY_SUBMERGED == 1

None == <<>>
NoParent == 0

\* the parts a driver builds the platform from
Parts ==
    { [description |-> "platform", weight |-> 0, volume |-> 1, submerged |-> NOT_SUBMERGED],
      [description |-> "pipe",     weight |-> 1, volume |-> 2, submerged |-> PARTIALLY_SUBMERGED],
      [description |-> "ballast",  weight |-> 3, volume |-> 1, submerged |-> FULLY_SUBMERGED],
      [description |-> "marker",   weight |-> 0, volume |-> 0, submerged |-> PARTIALLY_SUBMERGED] }

\* the parent_vector arguments a driver passes (None: the default)
Vectors == { None, <<0, 0, -4>>, <<1, 2, 0>> }

Scales == { 1, 2 }
Densities == { 1, 4 }

(***************************************************************************)
(* Arithmetic                                                              *)
(***************************************************************************)
Abs(a) == IF a < 0 THEN -a ELSE a

RECURSIVE GCD(_, _)
GCD(a, b) == IF b = 0 THEN a ELSE GCD(b, a % b)

\* the fraction n/d in lowest terms with a positive denominator; with d = 0
\* it is nan, inf or -inf, as IEEE arithmetic has it
Frac(n, d) ==
    IF d = 0 THEN <<IF n = 0 THEN 0 ELSE IF n > 0 THEN 1 ELSE -1, 0>>
    ELSE LET g == GCD(Abs(n), Abs(d))
             s == IF d < 0 THEN -1 ELSE 1
         IN  <<s * (n \div g), Abs(d) \div g>>

Rat(a) == <<a, 1>>
NaN == <<0, 0>>
PosInf == <<1, 0>>
NegInf == <<-1, 0>>
IsFinite(q) == q[2] # 0

\* arithmetic of fractions
RAdd(p, q) == Frac(p[1] * q[2] + q[1] * p[2], p[2] * q[2])
RSub(p, q) == Frac(p[1] * q[2] - q[1] * p[2], p[2] * q[2])
RMul(p, q) == Frac(p[1] * q[1], p[2] * q[2])
RNeg(p) == <<-p[1], p[2]>>
RLeq(p, q) == p[1] * q[2] <= q[1] * p[2]
RLess(p, q) == p[1] * q[2] < q[1] * p[2]

\* the quotient p / q
RDiv(p, q) == Frac(p[1] * q[2], p[2] * q[1])

PyDivNeverRaises(q) == FALSE

\* Python's a / b on two scalars raises ZeroDivisionError on a zero divisor
PyDivRaises(q) == q[1] = 0

\* numpy's array / scalar does not: a zero divisor gives nan, inf or -inf
\* per component and a RuntimeWarning
NpDivWarns(q) == q[1] = 0

\* three-component vectors, as numpy arrays
Zero3 == <<0, 0, 0>>
VAdd(u, v) == <<u[1] + v[1], u[2] + v[2], u[3] + v[3]>>
VSub(u, v) == <<u[1] - v[1], u[2] - v[2], u[3] - v[3]>>
VScale(u, k) == <<u[1] * k, u[2] * k, u[3] * k>>
VRat(u) == <<Rat(u[1]), Rat(u[2]), Rat(u[3])>>
RZero3 == VRat(Zero3)
RVAdd(u, v) == <<RAdd(u[1], v[1]), RAdd(u[2], v[2]), RAdd(u[3], v[3])>>
RVScale(u, k) == <<RMul(u[1], k), RMul(u[2], k), RMul(u[3], k)>>
NpVDiv(u, k) == <<RDiv(u[1], k), RDiv(u[2], k), RDiv(u[3], k)>>
VFinite(u) == IsFinite(u[1]) /\ IsFinite(u[2]) /\ IsFinite(u[3])

(***************************************************************************)
(* Construction                                                            *)
(***************************************************************************)
Nodes(h) == 1 .. Len(h)

\* assign_child: append to the parent's list, overwrite the child's vector
assign_child(h, self, child, parent_vector) ==
    LET pv == IF parent_vector = None THEN Zero3 ELSE parent_vector
    IN  [h EXCEPT ![self].children = Append(@, child),
                  ![child].parent_vector = pv]

\* __init__: parent_vector starts as the zero array, whatever was passed;
\* only a given parent sets it, through assign_child
NewComponent(h, part, parent, parent_vector) ==
    LET self == Len(h) + 1
        obj == [description |-> part.description,
                weight |-> part.weight,
                volume |-> part.volume,
                children |-> <<>>,
                parent_vector |-> Zero3,
                submerged |-> part.submerged]
        h1 == Append(h, obj)
    IN  IF parent # NoParent THEN assign_child(h1, parent, self, parent_vector)
        ELSE h1

(***************************************************************************)
(* The object graph                                                        *)
(***************************************************************************)
Range(s) == { s[i] : i \in DOMAIN s }

RECURSIVE Closure(_, _)
Closure(h, S) ==
    LET S2 == S \cup UNION { Range(h[m].children) : m \in S }
    IN  IF S2 = S THEN S ELSE Closure(h, S2)

\* the components a traversal started on self visits
Reach(h, self) == Closure(h, {self})

\* a traversal started on self never ends: some component it visits is its
\* own descendant (Python then raises RecursionError)
Cyclic(h, self) ==
    \E m \in Reach(h, self) : m \in Closure(h, Range(h[m].children))

(***************************************************************************)
(* Centre of gravity                                                       *)
(***************************************************************************)
RECURSIVE _get_cg(_, _)
RECURSIVE _get_cg_children(_, _, _, _)

_get_cg_accumulate_overwrite(acc, child) ==
    [weight_sum |-> acc.weight_sum + child[1],
     vector_sum_children |-> child[2]]

\* the loop body: add the child's weight and moment
_get_cg_accumulate(acc, child) ==
    [weight_sum |-> acc.weight_sum + child[1],
     vector_sum_children |-> VAdd(acc.vector_sum_children, child[2])]

_get_cg_children(h, kids, i, acc) ==
    IF i > Len(kids) THEN acc
    ELSE _get_cg_children(h, kids, i + 1,
                          _get_cg_accumulate(acc, _get_cg(h, kids[i])))

\* the sums before the loop: self's own weight, no moment
_get_cg_enter(c) == [weight_sum |-> c.weight, vector_sum_children |-> Zero3]

\* after the loop: the whole subtree's weight at self's position
_get_cg_finish(c, acc) ==
    LET vector_sum_self == VScale(c.parent_vector, acc.weight_sum)
    IN  <<acc.weight_sum, VAdd(acc.vector_sum_children, vector_sum_self)>>

\* <<weight of the subtree, its moment in the frame of self's parent>>
_get_cg(h, self) ==
    _get_cg_finish(h[self],
        _get_cg_children(h, h[self].children, 1, _get_cg_enter(h[self])))

calculate_cg_finish_parent_frame(c, r) ==
    <<NpVDiv(VRat(r[2]), Rat(r[1])), r[1]>>

\* the moment with self's own position taken out again, over the weight:
\* an array division, so a zero weight gives nan/inf components, no error
calculate_cg_finish(c, r) ==
    LET weight == r[1]
        vector_sum == VSub(r[2], VScale(c.parent_vector, weight))
    IN  <<NpVDiv(VRat(vector_sum), Rat(weight)), weight>>

calculate_cg_value(h, self) == calculate_cg_finish(h[self], _get_cg(h, self))

\* how a call ends: the exception it raised or the value it returned with
\* the warnings
\* issued, and what it printed
Raise(e) == [status |-> e, value |-> <<>>, warn |-> <<>>, out |-> <<>>]
Return(v, w, o) == [status |-> "ok", value |-> v, warn |-> w, out |-> o]

RuntimeWarning(divisor) ==
    IF NpDivWarns(divisor) THEN <<"RuntimeWarning">> ELSE <<>>

calculate_cg(h, self) ==
    IF Cyclic(h, self) THEN Raise("RecursionError")
    ELSE LET v == calculate_cg_value(h, self)
         IN  Return(v, RuntimeWarning(Rat(v[2])), <<>>)

(***************************************************************************)
(* Displaced volume                                                        *)
(***************************************************************************)
RECURSIVE get_displaced_volume_value(_, _)
RECURSIVE get_displaced_volume_children(_, _, _, _)

\* the sums before the loop
get_displaced_volume_enter ==
    [submerged_volume |-> 0, partially_submerged_children |-> <<>>]

\* the loop body: add the child's volume, extend the list by the child's
get_displaced_volume_accumulate(acc, child) ==
    [submerged_volume |-> acc.submerged_volume + child[1],
     partially_submerged_children |-> acc.partially_submerged_children \o child[2]]

get_displaced_volume_children(h, kids, i, acc) ==
    IF i > Len(kids) THEN acc
    ELSE get_displaced_volume_children(h, kids, i + 1,
             get_displaced_volume_accumulate(acc,
                 get_displaced_volume_value(h, kids[i])))

get_displaced_volume_self_dry_skips(acc, c, self) ==
    IF c.submerged = FULLY_SUBMERGED
    THEN <<acc.submerged_volume + c.volume, acc.partially_submerged_children>>
    ELSE IF c.submerged = PARTIALLY_SUBMERGED
    THEN <<acc.submerged_volume, Append(acc.partially_submerged_children, self)>>
    ELSE <<0, <<>>>>

\* self's own part, after its children's: a fully submerged component adds
\* its volume, a partially submerged one is appended to the list
get_displaced_volume_self(acc, c, self) ==
    IF c.submerged = FULLY_SUBMERGED
    THEN <<acc.submerged_volume + c.volume, acc.partially_submerged_children>>
    ELSE IF c.submerged = PARTIALLY_SUBMERGED
    THEN <<acc.submerged_volume, Append(acc.partially_submerged_children, self)>>
    ELSE <<acc.submerged_volume, acc.partially_submerged_children>>

\* <<volume of the fully submerged, the partially submerged components>>
get_displaced_volume_value(h, self) ==
    get_displaced_volume_self(
        get_displaced_volume_children(h, h[self].children, 1,
                                      get_displaced_volume_enter),
        h[self], self)

get_displaced_volume(h, self) ==
    IF Cyclic(h, self) THEN Raise("RecursionError")
    ELSE Return(get_displaced_volume_value(h, self), <<>>, <<>>)

(***************************************************************************)
(* Centre of buoyancy                                                      *)
(***************************************************************************)
RECURSIVE get_cb_value(_, _, _, _)
RECURSIVE get_cb_children(_, _, _, _, _, _)

\* self's own displaced volume and the offset of its centroid; for a
\* partially submerged component L = submersion/submersion_rate is a scalar
\* division, which raises on a zero rate
get_cb_self(c, submersion, submersion_rate) ==
    IF c.submerged = PARTIALLY_SUBMERGED
    THEN IF PyDivRaises(submersion_rate)
         THEN [raised |-> TRUE, offset_vector |-> RZero3, displaced_volume |-> Rat(0)]
         ELSE LET L == RDiv(submersion, submersion_rate)
              IN  [raised |-> FALSE,
                   offset_vector |->
                       <<Rat(0), Rat(0), RDiv(RNeg(RSub(L, submersion)), Rat(2))>>,
                   displaced_volume |-> RMul(Rat(c.volume), submersion_rate)]
    ELSE IF c.submerged = FULLY_SUBMERGED
    THEN [raised |-> FALSE, offset_vector |-> RZero3, displaced_volume |-> Rat(c.volume)]
    ELSE [raised |-> FALSE, offset_vector |-> RZero3, displaced_volume |-> Rat(0)]

get_cb_accumulate_overwrite(acc, child) ==
    [raised |-> acc.raised \/ child.raised,
     child_volume_sum |-> RAdd(acc.child_volume_sum, child.volume_sum),
     child_vector_sum |-> child.vector_sum]

\* the loop body: add the child's volume and moment
get_cb_accumulate(acc, child) ==
    [raised |-> acc.raised \/ child.raised,
     child_volume_sum |-> RAdd(acc.child_volume_sum, child.volume_sum),
     child_vector_sum |-> RVAdd(acc.child_vector_sum, child.vector_sum)]

get_cb_children(h, kids, i, acc, submersion, submersion_rate) ==
    IF i > Len(kids) THEN acc
    ELSE get_cb_children(h, kids, i + 1,
             get_cb_accumulate(acc,
                 get_cb_value(h, kids[i], submersion, submersion_rate)),
             submersion, submersion_rate)

get_cb_combine_offset_all(c, own, acc) ==
    LET self_vector_sum ==
            RVAdd(RVScale(VRat(c.parent_vector),
                          RAdd(own.displaced_volume, acc.child_volume_sum)),
                  RVScale(own.offset_vector,
                          RAdd(own.displaced_volume, acc.child_volume_sum)))
    IN  [raised |-> FALSE,
         volume_sum |-> RAdd(acc.child_volume_sum, own.displaced_volume),
         vector_sum |-> RVAdd(self_vector_sum, acc.child_vector_sum)]

get_cb_combine_without_position(c, own, acc) ==
    [raised |-> FALSE,
     volume_sum |-> RAdd(acc.child_volume_sum, own.displaced_volume),
     vector_sum |-> RVAdd(RVScale(own.offset_vector, own.displaced_volume),
                          acc.child_vector_sum)]

\* self's moment in its parent's frame plus the children's
get_cb_combine(c, own, acc) ==
    LET self_vector_sum ==
            RVAdd(RVScale(VRat(c.parent_vector),
                          RAdd(own.displaced_volume, acc.child_volume_sum)),
                  RVScale(own.offset_vector, own.displaced_volume))
    IN  [raised |-> FALSE,
         volume_sum |-> RAdd(acc.child_volume_sum, own.displaced_volume),
         vector_sum |-> RVAdd(self_vector_sum, acc.child_vector_sum)]

GetCbRaised == [raised |-> TRUE, volume_sum |-> Rat(0), vector_sum |-> RZero3]

\* the sums before the loop
get_cb_enter ==
    [raised |-> FALSE, child_volume_sum |-> Rat(0), child_vector_sum |-> RZero3]

get_cb_value(h, self, submersion, submersion_rate) ==
    LET own == get_cb_self(h[self], submersion, submersion_rate)
    IN  IF own.raised THEN GetCbRaised
        ELSE LET acc == get_cb_children(h, h[self].children, 1, get_cb_enter,
                                        submersion, submersion_rate)
             IN  IF acc.raised THEN GetCbRaised
                 ELSE get_cb_combine(h[self], own, acc)

get_cb(h, self, submersion, submersion_rate) ==
    IF Cyclic(h, self) THEN Raise("RecursionError")
    ELSE LET r == get_cb_value(h, self, submersion, submersion_rate)
         IN  IF r.raised THEN Raise("ZeroDivisionError")
             ELSE Return(<<r.volume_sum, r.vector_sum>>, <<>>, <<>>)

RECURSIVE SumVolumes(_, _)
SumVolumes(h, lst) ==
    IF lst = <<>> THEN 0 ELSE h[Head(lst)].volume + SumVolumes(h, Tail(lst))

\* the rate that makes the displaced fluid weigh what the tree weighs; both
\* divisions are scalar divisions and raise on a zero divisor
submersion_rate_of(weight, fluid_density, volume, pole_volume) ==
    RDiv(RSub(RDiv(Rat(weight), Rat(fluid_density)), Rat(volume)),
         Rat(pole_volume))

\* cb = vector_sum / displaced_volume is an array division; the count of
\* the partially submerged components is printed
calculate_cb_finish(r, weight, s, submersion_rate, npartial) ==
    Return(<<NpVDiv(r.vector_sum, r.volume_sum), r.volume_sum, s, submersion_rate>>,
           RuntimeWarning(Rat(weight)) \o RuntimeWarning(r.volume_sum),
           <<npartial>>)

calculate_cb(h, self, scale, fluid_density) ==
    IF Cyclic(h, self) THEN Raise("RecursionError")
    ELSE
    LET weight == calculate_cg_value(h, self)[2]
        tally == get_displaced_volume_value(h, self)
        volume == tally[1]
        partially_submerged == tally[2]
        pole_volume == SumVolumes(h, partially_submerged)
    IN  IF PyDivRaises(Rat(fluid_density)) \/ PyDivRaises(Rat(pole_volume))
        THEN Raise("ZeroDivisionError")
        ELSE
        LET submersion_rate ==
                submersion_rate_of(weight, fluid_density, volume, pole_volume)
            s == RMul(submersion_rate, Rat(scale))
            r == get_cb_value(h, self, s, submersion_rate)
        IN  IF r.raised THEN Raise("ZeroDivisionError")
            ELSE calculate_cb_finish(r, weight, s, submersion_rate,
                                     Len(partially_submerged))

(***************************************************************************)
(* Tree dump                                                               *)
(***************************************************************************)
RECURSIVE get_tree_value(_, _, _)
RECURSIVE get_tree_children(_, _, _, _, _)

get_tree_children(h, kids, i, prev, string) ==
    IF i > Len(kids) THEN string
    ELSE get_tree_children(h, kids, i + 1, prev,
                           string \o get_tree_value(h, kids[i], prev + 1))

\* the lines of the dump; prev counts the '- ' before the description
get_tree_value(h, self, prev) ==
    get_tree_children(h, h[self].children, 1, prev,
        << <<prev, h[self].description, h[self].parent_vector>> >>)

get_tree(h, self) ==
    IF Cyclic(h, self) THEN Raise("RecursionError")
    ELSE Return(get_tree_value(h, self, 0), <<>>, <<>>)

(***************************************************************************)
(* Metacentric radius.  calculate_bm multiplies math.pi into every term,   *)
(* so each number it computes is a fraction of math.pi: the fraction q     *)
(* stands for q * math.pi here.  Lengths are whole multiples of 5 mm,      *)
(* volumes of (5 mm)^3; displaced_volume is a Python number, as            *)
(* calculate_cb returns it, so the division raises on zero.                *)
(***************************************************************************)
calculate_bm_inertia_own_moment_only(r, y, num_poles) ==
    RMul(Rat(num_poles), RMul(Frac(1, 4), Rat(r * r * r * r)))

\* intertia = num_poles * (pi / 4 * r ** 4 + pi * r ** 2 * y ** 2)
calculate_bm_inertia(r, y, num_poles) ==
    RMul(Rat(num_poles),
         RAdd(RMul(Frac(1, 4), Rat(r * r * r * r)), Rat(r * r * y * y)))

calculate_bm(r, y, displaced_volume, num_poles) ==
    LET intertia == calculate_bm_inertia(r, y, num_poles)
    IN  IF PyDivRaises(Rat(displaced_volume)) THEN Raise("ZeroDivisionError")
        ELSE LET temp_bm == RDiv(intertia, Rat(displaced_volume))
             IN  Return(<<Rat(0), Rat(0), temp_bm>>, <<>>, <<>>)

\* math.pi lies between these two
PiLow == Frac(333, 106)
PiHigh == Frac(355, 113)

(***************************************************************************)
(* What a call leaves in the objects                                       *)
(***************************************************************************)
node_after_visit_in_place(c) ==
    [c EXCEPT !.parent_vector = VScale(@, 2)]

node_after_visit_aliased(c) ==
    [c EXCEPT !.parent_vector = VScale(@, c.weight)]

\* a component after an aggregation method ran on it: no method assigns an
\* attribute of self, and every array operation builds a new array
node_after_visit(c) == c

heap_after_call(h, self) ==
    [m \in DOMAIN h |-> IF m \in Reach(h, self) THEN node_after_visit(h[m]) ELSE h[m]]

(***************************************************************************)
(* The driver: it builds components and calls the aggregations             *)
(***************************************************************************)
NoCall == [op |-> "none", self |-> 0, args |-> <<>>,
           status |-> "ok", value |-> <<>>, warn |-> <<>>, out |-> <<>>]

Call(op, self, args, r) ==
    [op |-> op, self |-> self, args |-> args,
     status |-> r.status, value |-> r.value, warn |-> r.warn, out |-> r.out]

\* the (submersion, submersion_rate) pairs of a direct get_cb call
CbArgs == { <<Rat(1), Frac(1, 2)>> }

Init ==
    /\ heap = <<>>
    /\ nassign = 0
    /\ ret = NoCall
    /\ tree0 = <<>>
    /\ threads = <<>>

Component(part, parent, parent_vector) ==
    /\ Len(heap) < MaxNodes
    /\ heap' = NewComponent(heap, part, parent, parent_vector)
    /\ ret' = NoCall
    /\ UNCHANGED <<nassign, tree0, threads>>

AssignChild(self, child, parent_vector) ==
    /\ nassign < MaxAssign
    /\ heap' = assign_child(heap, self, child, parent_vector)
    /\ nassign' = nassign + 1
    /\ ret' = NoCall
    /\ UNCHANGED <<tree0, threads>>

CalculateCg(self) ==
    /\ ret' = Call("calculate_cg", self, <<>>, calculate_cg(heap, self))
    /\ heap' = heap_after_call(heap, self)
    /\ UNCHANGED <<nassign, tree0, threads>>

GetDisplacedVolume(self) ==
    /\ ret' = Call("get_displaced_volume", self, <<>>, get_displaced_volume(heap, self))
    /\ heap' = heap_after_call(heap, self)
    /\ UNCHANGED <<nassign, tree0, threads>>

GetCb(self, submersion, submersion_rate) ==
    /\ ret' = Call("get_cb", self, <<submersion, submersion_rate>>,
                   get_cb(heap, self, submersion, submersion_rate))
    /\ heap' = heap_after_call(heap, self)
    /\ UNCHANGED <<nassign, tree0, threads>>

CalculateCb(self, scale, fluid_density) ==
    /\ ret' = Call("calculate_cb", self, <<scale, fluid_density>>,
                   calculate_cb(heap, self, scale, fluid_density))
    /\ heap' = heap_after_call(heap, self)
    /\ UNCHANGED <<nassign, tree0, threads>>

GetTree(self) ==
    /\ ret' = Call("get_tree", self, <<>>, get_tree(heap, self))
    /\ heap' = heap_after_call(heap, self)
    /\ UNCHANGED <<nassign, tree0, threads>>

CalculateBm(r, y, displaced_volume, num_poles) ==
    /\ ret' = Call("calculate_bm", 0, <<r, y, displaced_volume, num_poles>>,
                   calculate_bm(r, y, displaced_volume, num_poles))
    /\ UNCHANGED <<heap, nassign, tree0, threads>>

\* the repository's drivers attach a component as they construct it
Build ==
    \E part \in Parts, parent \in {NoParent} \cup Nodes(heap), pv \in Vectors :
        Component(part, parent, pv)

\* a caller of the class may also attach a component it built before
Attach ==
    \E self \in Nodes(heap), child \in Nodes(heap), pv \in Vectors :
        AssignChild(self, child, pv)

Aggregate ==
    \E self \in Nodes(heap) :
        \/ CalculateCg(self)
        \/ GetDisplacedVolume(self)
        \/ \E a \in CbArgs : GetCb(self, a[1], a[2])
        \/ \E scale \in Scales, fluid_density \in Densities :
               CalculateCb(self, scale, fluid_density)
        \/ GetTree(self)

Next == Build \/ Aggregate

Spec == Init /\ [][Next]_vars

\* every caller of the class, on fewer components
MaxApiNodes == 2
NextApi == (Len(heap) < MaxApiNodes /\ Build) \/ Attach \/ Aggregate
SpecApi == Init /\ [][NextApi]_vars

\* the rate solver on its own, over more parts: components without weight
\* that displace fluid
MaxSolveNodes == 2
LightParts ==
    { [description |-> "float", weight |-> 0, volume |-> 2, submerged |-> PARTIALLY_SUBMERGED],
      [description |-> "hull",  weight |-> 0, volume |-> 1, submerged |-> FULLY_SUBMERGED] }

BuildLight ==
    \E part \in LightParts, parent \in {NoParent} \cup Nodes(heap), pv \in Vectors :
        Component(part, parent, pv)

Solve ==
    \E self \in Nodes(heap), scale \in Scales, fluid_density \in Densities :
        CalculateCb(self, scale, fluid_density)

NextSolve == (Len(heap) < MaxSolveNodes /\ (Build \/ BuildLight)) \/ Solve
SpecSolve == Init /\ [][NextSolve]_vars

\* calculate_bm on its own: radius and half span of the members in units of
\* 5 mm (0.055 m = 11, 0.35 m = 70), the displaced volume in (5 mm)^3
\* (0.05 m^3 = 400000), the number of members
Radii == { 1, 2, 11 }
HalfSpans == { 0, 3, 70 }
BmVolumes == { 0, 1, 3, 400000 }
PoleCounts == { 1, 2, 4, 6 }

NextBm ==
    \E r \in Radii, y \in HalfSpans, displaced_volume \in BmVolumes,
       num_poles \in PoleCounts :
        CalculateBm(r, y, displaced_volume, num_poles)

SpecBm == Init /\ [][NextBm]_vars

(***************************************************************************)
(* Calculations that run interleaved over one completed tree.  A           *)
(* calculation is a thread with its own call stack; a step enters one      *)
(* call of a recursive method or returns from one, and reads the           *)
(* components when it does.                                                *)
(***************************************************************************)
MaxConcNodes == 2
Tids == { 1, 2 }

\* the calculations a thread may be given: <<method, <<scale, fluid_density>>>>
Calculations ==
    { <<"calculate_cg", <<>>>>, <<"calculate_cb", <<1, 1>>>>, <<"calculate_cb", <<2, 4>>>> }

Pending == [status |-> "pending", value |-> <<>>, warn |-> <<>>, out |-> <<>>]

NewThread(calc, self) ==
    [op |-> calc[1], self |-> self, args |-> calc[2], pc |-> "start",
     stack |-> <<>>, weight |-> 0, s |-> Rat(0), submersion_rate |-> Rat(0),
     npartial |-> 0, mixed |-> FALSE, result |-> Pending]

\* the frame of a call of method fn on component c: its sums before the loop
Frame(fn, c, self, submersion, submersion_rate) ==
    [fn |-> fn, self |-> self, i |-> 1,
     acc |-> CASE fn = "_get_cg" -> _get_cg_enter(c)
               [] fn = "get_displaced_volume" -> get_displaced_volume_enter
               [] OTHER -> get_cb_enter,
     own |-> IF fn = "get_cb" THEN get_cb_self(c, submersion, submersion_rate)
             ELSE <<>>]

\* what the call returns once its loop is over
FrameValue(f, c) ==
    CASE f.fn = "_get_cg" -> _get_cg_finish(c, f.acc)
      [] f.fn = "get_displaced_volume" -> get_displaced_volume_self(f.acc, c, f.self)
      [] OTHER -> get_cb_combine(c, f.own, f.acc)

\* the caller's loop body on the value the child's call returned
FrameAccumulate(f, v) ==
    [f EXCEPT !.i = @ + 1,
              !.acc = CASE f.fn = "_get_cg" -> _get_cg_accumulate(@, v)
                        [] f.fn = "get_displaced_volume" ->
                               get_displaced_volume_accumulate(@, v)
                        [] OTHER -> get_cb_accumulate(@, v)]

Finished(th, r) == [th EXCEPT !.pc = "done", !.stack = <<>>, !.result = r]

\* calculate_cg / calculate_cb go on with the value v of the traversal
\* they called
Continue(th, h, v) ==
    CASE th.pc = "cg" ->
           LET cg == calculate_cg_finish(h[th.self], v)
           IN  IF th.op = "calculate_cg"
               THEN Finished(th, Return(cg, RuntimeWarning(Rat(cg[2])), <<>>))
               ELSE IF PyDivRaises(Rat(th.args[2]))
               THEN Finished(th, Raise("ZeroDivisionError"))
               ELSE [th EXCEPT !.pc = "tally", !.weight = cg[2],
                        !.stack = << Frame("get_displaced_volume", h[th.self],
                                           th.self, Rat(0), Rat(0)) >>]
      [] th.pc = "tally" ->
           LET pole_volume == SumVolumes(h, v[2])
               submersion_rate ==
                   submersion_rate_of(th.weight, th.args[2], v[1], pole_volume)
               s == RMul(submersion_rate, Rat(th.args[1]))
           IN  IF PyDivRaises(Rat(pole_volume))
               THEN Finished(th, Raise("ZeroDivisionError"))
               ELSE [th EXCEPT !.pc = "cb", !.s = s,
                        !.submersion_rate = submersion_rate,
                        !.npartial = Len(v[2]),
                        !.stack = << Frame("get_cb", h[th.self], th.self,
                                           s, submersion_rate) >>]
      [] OTHER ->
           Finished(th, calculate_cb_finish(v, th.weight, th.s,
                                            th.submersion_rate, th.npartial))

\* one step of a thread on the components h: <<the thread, the components>>
Advance(th, h) ==
    IF th.pc = "start"
    THEN << [th EXCEPT !.pc = "cg",
                !.stack = << Frame("_get_cg", h[th.self], th.self, Rat(0), Rat(0)) >>],
            h >>
    ELSE
    LET n == Len(th.stack)
        top == th.stack[n]
        rest == SubSeq(th.stack, 1, n - 1)
    IN  IF top.fn = "get_cb" /\ top.own.raised
        THEN << Finished(th, Raise("ZeroDivisionError")), h >>
        ELSE IF top.i <= Len(h[top.self].children)
        THEN LET child == h[top.self].children[top.i]
             IN  << [th EXCEPT !.stack = Append(@,
                        Frame(top.fn, h[child], child, th.s, th.submersion_rate))],
                    h >>
        ELSE LET v == FrameValue(top, h[top.self])
                 h2 == [h EXCEPT ![top.self] = node_after_visit(@)]
             IN  IF n > 1
                 THEN << [th EXCEPT !.stack =
                             Append(SubSeq(rest, 1, n - 2),
                                    FrameAccumulate(rest[n - 1], v))],
                         h2 >>
                 ELSE << Continue([th EXCEPT !.stack = <<>>], h2, v), h2 >>

\* the calculations start together on the tree as it is now
Start ==
    /\ threads = <<>>
    /\ heap # <<>>
    /\ \E c \in [Tids -> Calculations], self \in Nodes(heap) :
           threads' = [t \in Tids |-> NewThread(c[t], self)]
    /\ tree0' = heap
    /\ UNCHANGED <<heap, nassign, ret>>

Step(t) ==
    /\ threads # <<>>
    /\ threads[t].pc # "done"
    /\ LET a == Advance(threads[t], heap)
           busy == \E u \in Tids \ {t} : threads[u].pc \notin {"start", "done"}
       IN  /\ threads' = [threads EXCEPT ![t] = [a[1] EXCEPT !.mixed = @ \/ busy]]
           /\ heap' = a[2]
    /\ UNCHANGED <<nassign, ret, tree0>>

NextConc ==
    \/ (threads = <<>> /\ Len(heap) < MaxConcNodes /\ Build)
    \/ Start
    \/ \E t \in Tids : Step(t)

SpecConc == Init /\ [][NextConc]_vars

\* what the calculation of a thread returns when it runs alone on h
Alone(th, h) ==
    IF th.op = "calculate_cg" THEN calculate_cg(h, th.self)
    ELSE calculate_cb(h, th.self, th.args[1], th.args[2])

(***************************************************************************)
(* What the claims speak of, stated over the tree as a set of components   *)
(***************************************************************************)
\* how often n is listed as a child by the components of S
Occurrences(h, S, n) ==
    Cardinality(UNION { { <<m, i>> : i \in { j \in DOMAIN h[m].children :
                                                h[m].children[j] = n } } :
                        m \in S })

\* the components under root form a strict tree: no cycle, and each but
\* the root is listed once, by one parent
StrictTree(h, root) ==
    /\ ~Cyclic(h, root)
    /\ \A n \in Reach(h, root) :
           Occurrences(h, Reach(h, root), n) = IF n = root THEN 0 ELSE 1

ParentOf(h, root, n) ==
    CHOOSE m \in Reach(h, root) : n \in Range(h[m].children)

\* the position of n in root's frame: the relative positions on the path
\* from root (excluded) down to n
RECURSIVE PathPos(_, _, _)
PathPos(h, root, n) ==
    IF n = root THEN Zero3
    ELSE VAdd(h[n].parent_vector, PathPos(h, root, ParentOf(h, root, n)))

RECURSIVE SumSet(_, _)
SumSet(S, f) ==
    IF S = {} THEN 0
    ELSE LET x == CHOOSE y \in S : TRUE IN f[x] + SumSet(S \ {x}, f)

RECURSIVE VSumSet(_, _)
VSumSet(S, f) ==
    IF S = {} THEN Zero3
    ELSE LET x == CHOOSE y \in S : TRUE IN VAdd(f[x], VSumSet(S \ {x}, f))

TotalWeight(h, root) ==
    SumSet(Reach(h, root), [n \in Reach(h, root) |-> h[n].weight])

WeightMoment(h, root) ==
    VSumSet(Reach(h, root),
            [n \in Reach(h, root) |-> VScale(PathPos(h, root, n), h[n].weight)])

\* u / k for an integer vector u and an integer k # 0
VOver(u, k) == <<Frac(u[1], k), Frac(u[2], k), Frac(u[3], k)>>

RECURSIVE RSumSet(_, _)
RSumSet(S, f) ==
    IF S = {} THEN Rat(0)
    ELSE LET x == CHOOSE y \in S : TRUE IN RAdd(f[x], RSumSet(S \ {x}, f))

RECURSIVE RVSumSet(_, _)
RVSumSet(S, f) ==
    IF S = {} THEN RZero3
    ELSE LET x == CHOOSE y \in S : TRUE IN RVAdd(f[x], RVSumSet(S \ {x}, f))

FullNodes(h, root) == { n \in Reach(h, root) : h[n].submerged = FULLY_SUBMERGED }
PartialNodes(h, root) == { n \in Reach(h, root) : h[n].submerged = PARTIALLY_SUBMERGED }

FullVolume(h, root) ==
    SumSet(FullNodes(h, root), [n \in FullNodes(h, root) |-> h[n].volume])
PartialVolume(h, root) ==
    SumSet(PartialNodes(h, root), [n \in PartialNodes(h, root) |-> h[n].volume])

\* (total_weight / fluid_density - fully submerged volume) / partial volume
EquilibriumRate(h, root, fluid_density) ==
    Frac(TotalWeight(h, root) - fluid_density * FullVolume(h, root),
         fluid_density * PartialVolume(h, root))

\* the volume component n displaces at the rate
Displaced(h, n, rate) ==
    IF h[n].submerged = FULLY_SUBMERGED THEN Rat(h[n].volume)
    ELSE IF h[n].submerged = PARTIALLY_SUBMERGED THEN RMul(rate, Rat(h[n].volume))
    ELSE Rat(0)

DisplacedVolume(h, root, rate) ==
    RSumSet(Reach(h, root), [n \in Reach(h, root) |-> Displaced(h, n, rate)])

\* the offset of n's centroid of displacement from its nominal centre
CentroidOffset(h, n, rate, scale) ==
    IF h[n].submerged = PARTIALLY_SUBMERGED
    THEN LET depth == RMul(rate, Rat(scale))
             L == RDiv(depth, rate)
         IN  <<Rat(0), Rat(0), RNeg(RDiv(RSub(L, depth), Rat(2)))>>
    ELSE RZero3

BuoyancyMoment(h, root, rate, scale) ==
    RVSumSet(Reach(h, root),
             [n \in Reach(h, root) |->
                 RVScale(RVAdd(VRat(PathPos(h, root, n)),
                               CentroidOffset(h, n, rate, scale)),
                         Displaced(h, n, rate))])

Outside01(rate) == RLess(rate, Rat(0)) \/ RLess(Rat(1), rate)

\* the result marks the equilibrium as infeasible: a component beyond
\* (cb, displaced_volume, s, submersion_rate), or a warning that says so
Flagged(r) == Len(r.value) > 4 \/ "InfeasibleEquilibrium" \in Range(r.warn)

NoDuplicates(lst) == \A i, j \in DOMAIN lst : lst[i] = lst[j] => i = j

\* the trees that differ from h only in the order of the children lists
Bijections(D) == { p \in [D -> D] : \A i, j \in D : p[i] = p[j] => i = j }
PermsOf(lst) == { [i \in DOMAIN lst |-> lst[p[i]]] : p \in Bijections(DOMAIN lst) }
Reorderings(h) ==
    LET all == UNION { PermsOf(h[m].children) : m \in DOMAIN h }
    IN  { [m \in DOMAIN h |-> [h[m] EXCEPT !.children = c[m]]] :
            c \in { d \in [DOMAIN h -> all] :
                       \A m \in DOMAIN h : d[m] \in PermsOf(h[m].children) } }

SameOutcome(r, q) == r.status = q.status /\ r.value = q.value

(***************************************************************************)
(* Claims                                                                  *)
(***************************************************************************)
\* C1: on a strict tree of positive total weight calculate_cg returns
\* (P, W) with W the sum of the weights of all components of the tree and
\* P = (sum of weight_n * pos_n) / W, pos_n the sum of the relative
\* positions on the path from the root (excluded) down to n.
C1_WeightedAverage ==
    (/\ ret.op = "calculate_cg"
     /\ StrictTree(heap, ret.self)
     /\ TotalWeight(heap, ret.self) > 0)
    => /\ ret.status = "ok"
       /\ ret.value[2] = TotalWeight(heap, ret.self)
       /\ ret.value[1] = VOver(WeightMoment(heap, ret.self),
                               TotalWeight(heap, ret.self))

\* weights 1 and 3 at (0,0,0) and (0,0,-4) under a zero-weight root: the
\* centre of gravity is (0,0,-3), the weight 4
C1_Witness ==
    /\ ret.op = "calculate_cg"
    /\ ret.self = 1
    /\ Len(heap) = 3
    /\ heap[1].weight = 0 /\ heap[1].children = <<2, 3>>
    /\ heap[2].weight = 1 /\ heap[2].parent_vector = <<0, 0, 0>>
    /\ heap[3].weight = 3 /\ heap[3].parent_vector = <<0, 0, -4>>
    /\ ret.value = << <<Rat(0), Rat(0), Rat(-3)>>, 4 >>

\* C2 (as claimed): calculate_cg on a component whose subtree weighs 0
\* ends in an error and returns no position.
C2_ZeroWeightRaises ==
    (/\ ret.op = "calculate_cg"
     /\ ~Cyclic(heap, ret.self)
     /\ TotalWeight(heap, ret.self) = 0)
    => ret.status # "ok"

\* C3 (as claimed): on every tree whose partially submerged volumes do not
\* sum to zero calculate_cb returns the rate (total_weight / fluid_density -
\* fully submerged volume) / (sum of the partial volumes), unclamped, and
\* the displaced volume (fully submerged volume + rate * sum of the partial
\* volumes), so that fluid_density * displaced volume is the total weight.
C3_RateAndClosure ==
    (/\ ret.op = "calculate_cb"
     /\ ~Cyclic(heap, ret.self)
     /\ PartialVolume(heap, ret.self) # 0)
    => /\ ret.status = "ok"
       /\ ret.value[4] = EquilibriumRate(heap, ret.self, ret.args[2])
       /\ ret.value[2] = RAdd(Rat(FullVolume(heap, ret.self)),
                              RMul(ret.value[4], Rat(PartialVolume(heap, ret.self))))
       /\ RMul(Rat(ret.args[2]), ret.value[2]) = Rat(TotalWeight(heap, ret.self))

\* C4: calculate_cb on a tree whose partially submerged volumes sum to
\* zero (one without a partially submerged component included) raises an
\* error to its caller and returns no rate, depth or centre of buoyancy.
C4_NoPartialVolumeRaises ==
    (/\ ret.op = "calculate_cb"
     /\ ~Cyclic(heap, ret.self)
     /\ PartialVolume(heap, ret.self) = 0)
    => /\ ret.status = "ZeroDivisionError"
       /\ ret.value = <<>>
       /\ ret.out = <<>>

\* partially submerged components are there, of volume 0, and the call failed
C4_Witness ==
    /\ ret.op = "calculate_cb"
    /\ PartialNodes(heap, ret.self) # {}
    /\ FullNodes(heap, ret.self) # {}
    /\ PartialVolume(heap, ret.self) = 0
    /\ ret.status = "ZeroDivisionError"

\* C5 (as claimed): when the rate calculate_cb solved is below 0 or above 1
\* the result carries a warning or a flag that marks the equilibrium as
\* infeasible.
C5_InfeasibleFlagged ==
    (/\ ret.op = "calculate_cb"
     /\ ret.status = "ok"
     /\ Outside01(ret.value[4]))
    => Flagged(ret)

\* C6: on a strict tree get_displaced_volume returns (V, Lst): V the sum of
\* the volumes of exactly the fully submerged components, whatever their
\* ancestors are, and Lst every partially submerged component once and no
\* other; a component that is not submerged adds nothing, its descendants do.
C6_Tally ==
    (/\ ret.op = "get_displaced_volume"
     /\ StrictTree(heap, ret.self))
    => /\ ret.status = "ok"
       /\ ret.value[1] = FullVolume(heap, ret.self)
       /\ NoDuplicates(ret.value[2])
       /\ Range(ret.value[2]) = PartialNodes(heap, ret.self)

\* under a root that is not submerged: a fully and a partially submerged
\* component, one of them below the other
C6_Witness ==
    /\ ret.op = "get_displaced_volume"
    /\ ret.self = 1
    /\ heap[1].submerged = NOT_SUBMERGED /\ heap[1].volume > 0
    /\ Len(heap) = 3
    /\ heap[2].children = <<3>>
    /\ heap[2].submerged = PARTIALLY_SUBMERGED
    /\ heap[3].submerged = FULLY_SUBMERGED
    /\ ret.value = <<heap[3].volume, <<2>>>>

C8_OrderIrrelevant ==
    /\ ret.op = "calculate_cg" =>
           \A h2 \in Reorderings(heap) :
               SameOutcome(ret, calculate_cg(h2, ret.self))
    /\ ret.op = "calculate_cb" =>
           \A h2 \in Reorderings(heap) :
               SameOutcome(ret, calculate_cb(h2, ret.self, ret.args[1], ret.args[2]))

\* a centre of buoyancy of a root with two different children
C8_Witness ==
    /\ ret.op = "calculate_cb"
    /\ ret.status = "ok"
    /\ Len(heap[ret.self].children) = 2
    /\ Cardinality(Reorderings(heap)) = 2
    /\ VFinite(ret.value[1])

\* C9: an aggregation call, whether it returns or raises, leaves every
\* component as it was (weight, volume, description, submersion class,
\* relative position, children and their order); and no operation,
\* assign_child included, writes the submersion class of a component.
C9_ReadOnly ==
    [][ /\ ret'.op # "none" => heap' = heap
        /\ \A n \in Nodes(heap) : heap'[n].submerged = heap[n].submerged ]_vars

\* a call that raised, on a tree that assign_child was called on directly
C9_Witness ==
    /\ ret.op = "calculate_cb"
    /\ ret.status = "ZeroDivisionError"
    /\ nassign = 1
    /\ Len(heap) = 2

\* C10: calculations (calculate_cg, calculate_cb with their own scales and
\* fluid densities) that run over one completed tree with their steps
\* interleaved each return what they return when run alone on that tree.
C10_Interleaved ==
    \A t \in DOMAIN threads :
        threads[t].pc = "done" => threads[t].result = Alone(threads[t], tree0)

\* two centres of buoyancy for different fluid densities, both returned,
\* each thread having stepped while the other was under way
C10_Witness ==
    /\ threads # <<>>
    /\ \A t \in Tids : /\ threads[t].pc = "done"
                       /\ threads[t].mixed
                       /\ threads[t].op = "calculate_cb"
                       /\ threads[t].result.status = "ok"
    /\ threads[1].args # threads[2].args
    /\ Len(tree0) = 2 /\ tree0[1].children = <<2>>

\* every component is listed as a child at most once in all, and none is
\* its own descendant
StrictForest(h) ==
    \A n \in Nodes(h) :
        /\ Occurrences(h, Nodes(h), n) <= 1
        /\ n \notin Closure(h, Range(h[n].children))

\* C11 (as claimed): after every construction and every assign_child call
\* each component is listed as a child by at most one component and once
\* there, none is its own ancestor, and the relative position of a component
\* that is attached stays the one its attachment gave it.
C11_StrictTree ==
    [][ /\ StrictForest(heap')
        /\ \A n \in Nodes(heap) :
               Occurrences(heap, Nodes(heap), n) > 0
                   => heap'[n].parent_vector = heap[n].parent_vector ]_vars

\* where get_cb puts the centroid of displacement of component n, from n's
\* nominal centre, at the depth and rate it is called with
PlacedOffset(h, n, depth, rate) == get_cb_self(h[n], depth, rate).offset_vector

\* C12 (as claimed): for every rate below 1 that calculate_cb solves, with a
\* positive scale, get_cb places the centroid of each partially submerged
\* component at (0, 0, -(L - depth)/2) from its nominal centre, a vertical
\* offset below zero, with L = depth / rate the scale (the reference length).
C12_OffsetBelowCentre ==
    (/\ ret.op = "calculate_cb"
     /\ ~Cyclic(heap, ret.self)
     /\ ret.args[1] > 0
     /\ PartialVolume(heap, ret.self) # 0
     /\ RLess(EquilibriumRate(heap, ret.self, ret.args[2]), Rat(1)))
    => /\ ret.status = "ok"
       /\ LET depth == ret.value[3]
              rate == ret.value[4]
              L == RDiv(depth, rate)
          IN  /\ L = Rat(ret.args[1])
              /\ \A n \in PartialNodes(heap, ret.self) :
                     /\ PlacedOffset(heap, n, depth, rate)
                            = <<Rat(0), Rat(0), RNeg(RDiv(RSub(L, depth), Rat(2)))>>
                     /\ RLess(PlacedOffset(heap, n, depth, rate)[3], Rat(0))

\* the trees that differ from h in the weight of one component under root,
\* which is heavier; volumes, classes and positions are those of h
MaxExtraWeight == 2
Heavier(h, root) ==
    { [h EXCEPT ![n].weight = @ + k] : n \in Reach(h, root), k \in 1 .. MaxExtraWeight }

\* C13 (as claimed): with the volumes and classes fixed and a positive sum
\* of the partial volumes, the rate calculate_cb returns is strictly greater
\* on a tree of greater total weight at the same fluid density, and strictly
\* greater for a smaller fluid density on the same tree.
C13_RateMonotone ==
    (/\ ret.op = "calculate_cb"
     /\ ret.status = "ok"
     /\ ~Cyclic(heap, ret.self)
     /\ PartialVolume(heap, ret.self) > 0)
    => /\ \A h2 \in Heavier(heap, ret.self) :
              LET r2 == calculate_cb(h2, ret.self, ret.args[1], ret.args[2])
              IN  r2.status = "ok" => RLess(ret.value[4], r2.value[4])
       /\ \A fluid_density \in Densities :
              fluid_density < ret.args[2] =>
                  LET r2 == calculate_cb(heap, ret.self, ret.args[1], fluid_density)
                  IN  r2.status = "ok" => RLess(ret.value[4], r2.value[4])

\* the whole number nearest to the fraction q >= 0
Nearest(q) == (2 * q[1] + q[2]) \div (2 * q[2])

\* a length bm that is q * math.pi units of 5 mm, in tenths of a millimetre
\* (the fourth decimal of metres), math.pi taken as pi
TenthsOfMm(q, pi) == Nearest(RMul(RMul(q, Rat(50)), pi))

\* 4 members, r = 0.055 m, y = 0.35 m, displaced_volume = 0.05 m^3
BmScenario == <<11, 70, 400000, 4>>

MaxFactor == 3

\* calculate_bm returned (0, 0, I / displaced_volume) with
\* I = num_poles * (pi/4 * r^4 + pi * r^2 * y^2); k times the members give
\* k times the vertical component, k times the volume its k-th part
BmContract ==
    LET r == ret.args[1]
        y == ret.args[2]
        displaced_volume == ret.args[3]
        num_poles == ret.args[4]
    IN  /\ ret.status = "ok"
        /\ ret.value[1] = Rat(0) /\ ret.value[2] = Rat(0)
        /\ ret.value[3] = Frac(num_poles * (r * r * r * r + 4 * r * r * y * y),
                               4 * displaced_volume)
        /\ \A k \in 1 .. MaxFactor :
               /\ calculate_bm(r, y, displaced_volume, k * num_poles).value[3]
                      = RMul(Rat(k), ret.value[3])
               /\ calculate_bm(r, y, k * displaced_volume, num_poles).value[3]
                      = RDiv(ret.value[3], Rat(k))

\* the vertical component of the result is tenths / 10000 m to four decimals
BmRoundsTo(tenths) ==
    /\ TenthsOfMm(ret.value[3], PiLow) = tenths
    /\ TenthsOfMm(ret.value[3], PiHigh) = tenths

\* C14 (amended): for a displaced volume that is not zero calculate_bm
\* returns (0, 0, I / displaced_volume), I = num_poles * (pi/4 * r^4 +
\* pi * r^2 * y^2): horizontal components zero, the vertical one
\* proportional to num_poles and inversely to displaced_volume; for 4
\* members, r = 0.055, y = 0.35, displaced_volume = 0.05 it is 0.0937 to
\* four decimals.
C14_MetacentricRadius ==
    (ret.op = "calculate_bm" /\ ret.args[3] # 0)
    => /\ BmContract
       /\ ret.args = BmScenario => BmRoundsTo(937)

\* the scenario of the claim was computed
C14_Witness ==
    /\ ret.op = "calculate_bm"
    /\ ret.args = BmScenario
    /\ ret.status = "ok"
    /\ ret.value[3] = Frac(2386241, 400000)

\* C14 (as claimed): the same, the vertical component of the scenario being
\* about 0.0936.
C14_AsClaimed ==
    (ret.op = "calculate_bm" /\ ret.args[3] # 0)
    => /\ BmContract
       /\ ret.args = BmScenario => BmRoundsTo(936)

\* the relative positions a component may be given
Positions == { IF v = None THEN Zero3 ELSE v : v \in Vectors }

\* C15: calculate_cg on a component, root or not, returns the centre of
\* gravity of its subtree in its own frame: the result is the same for every
\* relative position of the component itself and for every weight and
\* position of a component outside its subtree; the component's own weight
\* counts at offset zero (more of it leaves the moment position * weight as
\* it is); a component without children and of positive weight gives the
\* zero vector and its own weight.
C15_OwnFrame ==
    (/\ ret.op = "calculate_cg"
     /\ StrictTree(heap, ret.self))
    => /\ \A v \in Positions :
              SameOutcome(ret, calculate_cg(
                  [heap EXCEPT ![ret.self].parent_vector = v], ret.self))
       /\ \A m \in Nodes(heap) \ Reach(heap, ret.self), part \in Parts, v \in Positions :
              SameOutcome(ret, calculate_cg(
                  [heap EXCEPT ![m].weight = part.weight,
                               ![m].parent_vector = v], ret.self))
       /\ TotalWeight(heap, ret.self) > 0 =>
              \A k \in 1 .. MaxExtraWeight :
                  LET r2 == calculate_cg(
                          [heap EXCEPT ![ret.self].weight = @ + k], ret.self)
                  IN  /\ r2.value[2] = ret.value[2] + k
                      /\ RVScale(r2.value[1], Rat(r2.value[2]))
                             = RVScale(ret.value[1], Rat(ret.value[2]))
       /\ (heap[ret.self].children = <<>> /\ heap[ret.self].weight > 0) =>
              ret.value = <<RZero3, heap[ret.self].weight>>

\* the centre of gravity of a component away from its parent, with a child
\* away from it, the parent being heavy
C15_Witness ==
    /\ ret.op = "calculate_cg"
    /\ ret.status = "ok"
    /\ Len(heap) = 3
    /\ ret.self = 2
    /\ heap[1].children = <<2>> /\ heap[1].weight > 0
    /\ heap[2].children = <<3>> /\ heap[2].parent_vector = <<1, 2, 0>>
    /\ heap[2].weight = 1
    /\ heap[3].weight = 3 /\ heap[3].parent_vector = <<0, 0, -4>>
    /\ ret.value = << <<Rat(0), Rat(0), Rat(-3)>>, 4 >>

\* the centre of buoyancy of root's subtree in root's own frame
OwnFrameCb(h, root, rate, scale) ==
    NpVDiv(BuoyancyMoment(h, root, rate, scale), DisplacedVolume(h, root, rate))

\* C16: calculate_cb leaves the relative position p of the component it is
\* called on in the moment: what it returns is the centre of buoyancy of
\* the subtree in the component's own frame plus p, the parent's frame,
\* while calculate_cg on the same component returns a position in the own
\* frame (one that does not change with p); the frames are the same exactly
\* when p is zero, and p is zero for every component constructed without a
\* parent, whatever parent_vector it was constructed with.
C16_CbInParentFrame ==
    /\ (/\ ret.op = "calculate_cb"
        /\ ret.status = "ok"
        /\ StrictTree(heap, ret.self)
        /\ ret.value[2][1] # 0)
       => LET p == heap[ret.self].parent_vector
              own == OwnFrameCb(heap, ret.self, ret.value[4], ret.args[1])
          IN  /\ ret.value[1] = RVAdd(own, VRat(p))
              /\ ret.value[1] = own <=> p = Zero3
              /\ \A v \in Positions :
                     LET h2 == [heap EXCEPT ![ret.self].parent_vector = v]
                     IN  /\ calculate_cg(h2, ret.self) = calculate_cg(heap, ret.self)
                         /\ calculate_cb(h2, ret.self, ret.args[1], ret.args[2]).value[1]
                                = RVAdd(own, VRat(v))
    /\ \A n \in Nodes(heap) :
           Occurrences(heap, Nodes(heap), n) = 0 => heap[n].parent_vector = Zero3

\* a centre of buoyancy of a component away from its parent, and a
\* component that was constructed without a parent
C16_Witness ==
    /\ ret.op = "calculate_cb"
    /\ ret.status = "ok"
    /\ ret.self = 2
    /\ Len(heap) = 3
    /\ heap[1].children = <<2>>
    /\ heap[2].parent_vector = <<1, 2, 0>>
    /\ heap[3].parent_vector = Zero3 /\ Occurrences(heap, Nodes(heap), 3) = 0
    /\ VFinite(ret.value[1])
    /\ ret.value[1] # OwnFrameCb(heap, 2, ret.value[4], ret.args[1])
    /\ calculate_cg(heap, 2).status = "ok"
    /\ VFinite(calculate_cg(heap, 2).value[1])

====
